---- MODULE Spec2Model ----
(***************************************************************************)
(* Model of auto-genre/create_genre_symlinks.py and                        *)
(* auto-genre/clear_genre_folders.py: the fuzzy title matcher, the symlink *)
(* reconciler (clear, ensure folders, link) and the library manager.       *)
(*                                                                         *)
(* Strings are sequences of one-character strings, so that the regular     *)
(* expressions and str methods of the source are modelled by what they do. *)
(***************************************************************************)
EXTENDS Integers, Sequences, FiniteSets, TLC

VARIABLES
    catalog,        \* jellyfin_items: the list get_all_jellyfin_items returned
    mLocal,         \* matcher harness: the local folder name given to the matcher
    mIsMovie,       \* matcher harness: the is_movie argument
    mResult,        \* matcher harness: -1 (not called), else the index returned, 0 for None
    fs,             \* the tree under genres_dir: path -> node, for the paths that exist
    movies,         \* os.listdir(movies_dir): a set of [name, isdir]
    shows,          \* os.listdir(shows_dir): a set of [name, isdir]
    include_shows,  \* config INCLUDE_SHOWS
    serverLibs,     \* names of the virtual libraries the media server holds
    mode,           \* which entry point runs: "create" or "clear"
    pc,             \* position in main()
    exitCode,       \* -1 while running, else the process exit code
    walk,           \* os.walk: stack of directories still to visit
    pending,        \* clear: symlinks of the directory being visited, not yet handled
    gi,             \* position in sorted(all_genres) (ensure folders / libraries)
    entries,        \* process_media_folder: listing entries not yet handled
    cur,            \* process_media_folder: the matched entry being linked
    existing,       \* manage_jellyfin_genre_libraries: existing_library_names
    calls,          \* library API calls issued in this run: <<[op, name, ok]>>
    run,            \* number of the current run
    hist            \* history of the current run, for stating the properties

vars == <<catalog, mLocal, mIsMovie, mResult, fs, movies, shows, include_shows,
          serverLibs, mode, pc, exitCode, walk, pending, gi, entries, cur,
          existing, calls, run, hist>>

matchVars == <<mLocal, mIsMovie, mResult>>

runVars == <<fs, movies, shows, include_shows, serverLibs, mode, pc, exitCode, walk,
             pending, gi, entries, cur, existing, calls, run, hist>>

(***************************************************************************)
(* Characters and the str / re primitives the source uses.                 *)
(***************************************************************************)
\* the printable ASCII characters in code point order, from 32 on (code point
\* 96, the backquote, occurs in no name and is held by a placeholder)
Ascii ==
    << " ", "!", "\"", "#", "$", "%", "&", "'", "(", ")", "*", "+",
       ",", "-", ".", "/", "0", "1", "2", "3", "4", "5", "6", "7",
       "8", "9", ":", ";", "<", "=", ">", "?", "@", "A", "B", "C",
       "D", "E", "F", "G", "H", "I", "J", "K", "L", "M", "N", "O",
       "P", "Q", "R", "S", "T", "U", "V", "W", "X", "Y", "Z", "[",
       "\\", "]", "^", "_", "<96>", "a", "b", "c", "d", "e", "f", "g",
       "h", "i", "j", "k", "l", "m", "n", "o", "p", "q", "r", "s",
       "t", "u", "v", "w", "x", "y", "z", "{", "|", "}", "~" >>

Chars == {Ascii[i] : i \in 1..Len(Ascii)}

\* the code point of each character
OrdTable == [c \in Chars |-> 31 + (CHOOSE i \in 1..Len(Ascii) : Ascii[i] = c)]

\* ord(c)
Ord(c) == OrdTable[c]

\* chr(n)
Chr(n) == Ascii[n - 31]

IsUpper(c) == Ord(c) >= 65 /\ Ord(c) <= 90

IsLowerLetter(c) == Ord(c) >= 97 /\ Ord(c) <= 122

IsDigit(c) == Ord(c) >= 48 /\ Ord(c) <= 57

\* str.lower() on one character
LowerChar(c) == IF IsUpper(c) THEN Chr(Ord(c) + 32) ELSE c

\* str.lower()
Lower(s) == [i \in 1..Len(s) |-> LowerChar(s[i])]

\* \w of the re module: alphanumerics and the underscore
IsWordChar(c) == IsUpper(c) \/ IsLowerLetter(c) \/ IsDigit(c) \/ c = "_"

\* \s of the re module
IsSpaceChar(c) == c = " "

\* re.sub(r'[^\w\s]', '', s)
RemovePunct(s) == SelectSeq(s, LAMBDA c : IsWordChar(c) \/ IsSpaceChar(c))

\* str.strip()
RECURSIVE LStrip(_)
LStrip(s) == IF s # <<>> /\ IsSpaceChar(Head(s)) THEN LStrip(Tail(s)) ELSE s

RECURSIVE RStrip(_)
RStrip(s) ==
    IF s # <<>> /\ IsSpaceChar(s[Len(s)]) THEN RStrip(SubSeq(s, 1, Len(s) - 1)) ELSE s

Strip(s) == RStrip(LStrip(s))

\* the pattern \(\d{4}\) matches s at position i
YearAt(s, i) ==
    /\ i >= 1
    /\ i + 5 <= Len(s)
    /\ s[i] = "("
    /\ \A k \in 1..4 : IsDigit(s[i + k])
    /\ s[i + 5] = ")"

\* positions where \(\d{4}\) matches
YearPositions(s) == {i \in 1..Len(s) : YearAt(s, i)}

MinOf(S) == CHOOSE x \in S : \A y \in S : x <= y

\* re.search(r'\((\d{4})\)', s): group(1) of the leftmost match, <<>> for None
YearSearch(s) ==
    IF YearPositions(s) = {} THEN <<>>
    ELSE LET i == MinOf(YearPositions(s)) IN SubSeq(s, i + 1, i + 4)

\* start of the whitespace run that ends right before position i
RECURSIVE SpaceRunStart(_, _)
SpaceRunStart(s, i) ==
    IF i > 1 /\ IsSpaceChar(s[i - 1]) THEN SpaceRunStart(s, i - 1) ELSE i

\* re.sub(r'\s*\(\d{4}\).*', '', s): the leftmost match starts at the
\* whitespace before the first year marker and runs to the end of the string
StripYear(s) ==
    IF YearPositions(s) = {} THEN s
    ELSE SubSeq(s, 1, SpaceRunStart(s, MinOf(YearPositions(s))) - 1)

\* a in b for strings
IsSubstring(a, b) ==
    \E i \in 0..(Len(b) - Len(a)) : SubSeq(b, i + 1, i + Len(a)) = a

\* set(s.split()): the whitespace-separated words of s
WordStarts(s) ==
    {i \in 1..Len(s) : ~IsSpaceChar(s[i]) /\ (i = 1 \/ IsSpaceChar(s[i - 1]))}

RECURSIVE WordEnd(_, _)
WordEnd(s, i) ==
    IF i < Len(s) /\ ~IsSpaceChar(s[i + 1]) THEN WordEnd(s, i + 1) ELSE i

WordSet(s) == {SubSeq(s, i, WordEnd(s, i)) : i \in WordStarts(s)}

\* str(n) for a positive integer
RECURSIVE IntToStr(_)
IntToStr(n) ==
    LET d == Chr(48 + (n % 10))
    IN IF n < 10 THEN <<d>> ELSE Append(IntToStr(n \div 10), d)

MaxOf2(a, b) == IF a >= b THEN a ELSE b

(***************************************************************************)
(* find_matching_jellyfin_item                                             *)
(***************************************************************************)
\* local_name = Path(local_path).name.lower()
LocalName(name) == Lower(name)

\* local_year; <<>> stands for None
LocalYear(name) == YearSearch(LocalName(name))

\* clean_local_name
CleanLocalName(name) == RemovePunct(Strip(StripYear(LocalName(name))))

\* clean_item_name
CleanItemName(item) == RemovePunct(Lower(item.Name))

\* item_year; ProductionYear 0 stands for a missing (falsy) year, <<>> for None
ItemYear(item) ==
    IF item.ProductionYear # 0 THEN IntToStr(item.ProductionYear) ELSE <<>>

\* the type filter at the head of the loop body
TypeWanted(item, is_movie) ==
    IF is_movie THEN item.Type = "Movie" ELSE item.Type = "Series"

\* mutant: containment is tested before equality
NameScoreContainsFirst(name, item) ==
    LET l == CleanLocalName(name)
        c == CleanItemName(item)
    IN IF IsSubstring(l, c) \/ IsSubstring(c, l) THEN [num |-> 50, den |-> 1]
       ELSE [num |-> 0, den |-> 1]

\* the name part of the score, as the fraction num/den
NameScore(name, item) ==
    LET l == CleanLocalName(name)
        c == CleanItemName(item)
        lw == WordSet(l)
        iw == WordSet(c)
    IN IF l = c THEN [num |-> 100, den |-> 1]
       ELSE IF IsSubstring(l, c) \/ IsSubstring(c, l) THEN [num |-> 50, den |-> 1]
       ELSE IF lw # {} /\ iw # {}
            THEN [num |-> Cardinality(lw \cap iw) * 30,
                  den |-> MaxOf2(Cardinality(lw), Cardinality(iw))]
            ELSE [num |-> 0, den |-> 1]

\* mutant: the bonus is given for a local year alone
YearBonusLocalOnly(name, item) == IF LocalYear(name) # <<>> THEN 20 ELSE 0

\* the year bonus
YearBonus(name, item) ==
    IF LocalYear(name) # <<>> /\ ItemYear(item) # <<>> /\ LocalYear(name) = ItemYear(item)
    THEN 20 ELSE 0

\* score of one candidate, as the fraction num/den
Score(name, item) ==
    LET s == NameScore(name, item)
    IN [num |-> s.num + YearBonus(name, item) * s.den, den |-> s.den]

\* a > b for fractions with positive denominators
ScoreGT(a, b) == a.num * b.den > b.num * a.den

MinScore == 40

\* mutant: a score of exactly 40 is accepted
ImprovesFrom40(score, best_score) ==
    ScoreGT(score, best_score) /\ ~ScoreGT([num |-> MinScore, den |-> 1], score)

\* mutant: a candidate with a score equal to the best replaces it
ImprovesOrTies(score, best_score) ==
    ~ScoreGT(best_score, score) /\ ScoreGT(score, [num |-> MinScore, den |-> 1])

\* score > best_score and score > 40
Improves(score, best_score) ==
    ScoreGT(score, best_score) /\ ScoreGT(score, [num |-> MinScore, den |-> 1])

\* the loop over jellyfin_items from position i on; best_match is an index
\* into items, 0 for None
RECURSIVE FindFrom(_, _, _, _, _, _)
FindFrom(name, items, is_movie, i, best_match, best_score) ==
    IF i > Len(items) THEN best_match
    ELSE IF ~TypeWanted(items[i], is_movie)
         THEN FindFrom(name, items, is_movie, i + 1, best_match, best_score)
    ELSE IF Improves(Score(name, items[i]), best_score)
         THEN FindFrom(name, items, is_movie, i + 1, i, Score(name, items[i]))
    ELSE FindFrom(name, items, is_movie, i + 1, best_match, best_score)

\* find_matching_jellyfin_item: index of the returned item, 0 for None
FindMatch(name, items, is_movie) ==
    FindFrom(name, items, is_movie, 1, 0, [num |-> 0, den |-> 1])

(***************************************************************************)
(* Names used as inputs                                                    *)
(***************************************************************************)
sInception == <<"I", "n", "c", "e", "p", "t", "i", "o", "n">>

sY2010 == <<"(", "2", "0", "1", "0", ")">>

sY2012 == <<"(", "2", "0", "1", "2", ")">>

sSp == <<" ">>

sBig == <<"B", "i", "g">>

sRed == <<"R", "e", "d">>

sDog == <<"D", "o", "g">>

sCat == <<"C", "a", "t">>

sUp == <<"U", "p">>

\* folder names a media root may hold
LocalPool ==
    { sInception \o sSp \o sY2010,                    \* "Inception (2010)"
      sInception,                                     \* "Inception"
      sInception \o sSp \o <<"2">> \o sSp \o sY2012,  \* "Inception 2 (2012)"
      sY2010,                                         \* "(2010)"
      sUp \o <<"!">> \o sSp \o sY2010 \o sSp \o sDog, \* "Up! (2010) Dog"
      sBig \o sSp \o sRed \o sSp \o sDog \o sSp \o sY2010,  \* "Big Red Dog (2010)"
      sRed \o sSp \o sDog \o sSp \o sY2010,           \* "Red Dog (2010)"
      sRed \o sSp \o sDog,                            \* "Red Dog"
      <<"!", "!">> }                                  \* "!!"

\* names of catalog items
ItemNamePool ==
    { sInception,                                     \* "Inception"
      sInception \o sSp \o <<"2">>,                   \* "Inception 2"
      sInception \o sSp \o sY2010,                    \* "Inception (2010)"
      <<>>,                                           \* missing or empty Name
      <<"!">>,                                        \* "!"
      sBig \o sSp \o sRed \o sSp \o sCat,             \* "Big Red Cat"
      sDog \o sSp \o sRed,                            \* "Dog Red"
      sUp }                                           \* "Up"

MatchItem(n, t, y) == [Name |-> n, Type |-> t, ProductionYear |-> y, Genres |-> <<>>]

\* catalog items the matcher is exercised on
MatchItemPool ==
    {MatchItem(n, "Movie", y) : n \in ItemNamePool, y \in {0, 2010}}
    \cup {MatchItem(sInception, "Series", 2010), MatchItem(sInception \o sSp \o <<"2">>, "Movie", 2012),
          MatchItem(sDog \o sSp \o sRed, "Series", 0)}

MaxCatalog == 2

SeqsUpTo(S, n) == UNION {[1..k -> S] : k \in 0..n}

(***************************************************************************)
(* Sorting of strings, as sorted() does it: by code point, lexicographic.  *)
(***************************************************************************)
RECURSIVE StrLess(_, _)
StrLess(a, b) ==
    IF a = <<>> THEN b # <<>>
    ELSE IF b = <<>> THEN FALSE
    ELSE IF Head(a) # Head(b) THEN Ord(Head(a)) < Ord(Head(b))
    ELSE StrLess(Tail(a), Tail(b))

\* sorted(S) for a set of strings
RECURSIVE Sorted(_)
Sorted(S) ==
    IF S = {} THEN <<>>
    ELSE LET m == CHOOSE x \in S : \A y \in S \ {x} : StrLess(x, y)
         IN <<m>> \o Sorted(S \ {m})

\* all_genres: the union of the Genres lists of the items
AllGenres(items) == UNION {{items[i].Genres[k] : k \in 1..Len(items[i].Genres)} : i \in 1..Len(items)}

\* the characters re.sub(r'[<>:"/\\|?*]', '_', genre) replaces
IllegalChars == {"<", ">", ":", "\"", "/", "\\", "|", "?", "*"}

\* clean_genre = re.sub(r'[<>:"/\\|?*]', '_', genre).strip()
Sanitize(genre) ==
    Strip([i \in 1..Len(genre) |-> IF genre[i] \in IllegalChars THEN "_" ELSE genre[i]])

(***************************************************************************)
(* The filesystem under genres_dir. A path is the sequence of its          *)
(* components below genres_dir, <<>> being genres_dir itself; fs maps the  *)
(* paths that exist to their node.                                         *)
(***************************************************************************)
DirNode == [kind |-> "dir", target |-> <<>>, data |-> 0]

FileNode(d) == [kind |-> "file", target |-> <<>>, data |-> d]

LinkNode(t) == [kind |-> "link", target |-> t, data |-> 0]

\* os.path.join(base, name): joining the empty string gives base itself
Join(base, name) == IF name = <<>> THEN base ELSE Append(base, name)

Parent(p) == SubSeq(p, 1, Len(p) - 1)

\* the entries of directory d
Children(f, d) == {p \in DOMAIN f : Len(p) = Len(d) + 1 /\ Parent(p) = d}

\* os.path.islink / Path.is_symlink
IsLink(f, p) == p \in DOMAIN f /\ f[p].kind = "link"

\* os.path.exists / Path.exists for a path that is no symlink
Exists(f, p) == p \in DOMAIN f

\* os.path.isdir for a path that is no symlink
IsDir(f, p) == p \in DOMAIN f /\ f[p].kind = "dir"

\* os.unlink(p)
Unlinked(f, p) == [q \in DOMAIN f \ {p} |-> f[q]]

\* a new entry at p
Added(f, p, node) == [q \in DOMAIN f \cup {p} |-> IF q = p THEN node ELSE f[q]]

\* all symlinks of the tree, with their targets
Links(f) == {<<p, f[p].target>> : p \in {q \in DOMAIN f : f[q].kind = "link"}}

\* all entries of the tree that are no symlinks, with their nodes
Regular(f) == {<<p, f[p]>> : p \in {q \in DOMAIN f : f[q].kind # "link"}}

\* the directories of the tree
Dirs(f) == {p \in DOMAIN f : f[p].kind = "dir"}

(***************************************************************************)
(* Container paths (the second halves of MOVIES_DIR, SHOWS_DIR and         *)
(* GENRES_DIR), as sequences of components.                                *)
(***************************************************************************)
cMedia == <<"m", "e", "d", "i", "a">>

movies_dir_container == <<cMedia, <<"M", "o", "v", "i", "e", "s">>>>

shows_dir_container == <<cMedia, <<"S", "h", "o", "w", "s">>>>

genres_dir_container == <<cMedia, <<"G", "e", "n", "r", "e", "s">>>>

DotDot == <<".", ".">>

RECURSIVE CommonLen(_, _)
CommonLen(a, b) ==
    IF a # <<>> /\ b # <<>> /\ Head(a) = Head(b) THEN 1 + CommonLen(Tail(a), Tail(b)) ELSE 0

\* os.path.relpath(path, start) for absolute normalized paths
RelPath(path, start) ==
    LET k == CommonLen(path, start)
    IN [i \in 1..(Len(start) - k) |-> DotDot] \o SubSeq(path, k + 1, Len(path))

\* relative_target of create_symlink: the container path of the entry seen
\* from the container path of the genre folder
RelativeTarget(container_media_path, item_name, clean_genre) ==
    RelPath(Join(container_media_path, item_name), Join(genres_dir_container, clean_genre))

(***************************************************************************)
(* create_symlink                                                          *)
(***************************************************************************)
\* whether create_symlink returns True
SymlinkMade(f, genre_path, item_name) ==
    LET symlink_path == Append(genre_path, item_name)
    IN IF IsLink(f, symlink_path) THEN TRUE
       ELSE IF Exists(f, symlink_path) THEN FALSE
       ELSE IsDir(f, genre_path)     \* symlink_to raises below a non-directory

\* mutant: whatever holds the name is replaced by the symlink
SymlinkFSForce(f, genre_path, item_name, relative_target) ==
    IF IsDir(f, genre_path)
    THEN Added(f, Append(genre_path, item_name), LinkNode(relative_target))
    ELSE f

\* the tree create_symlink leaves
SymlinkFS(f, genre_path, item_name, relative_target) ==
    LET symlink_path == Append(genre_path, item_name)
    IN IF IsLink(f, symlink_path)
       THEN Added(Unlinked(f, symlink_path), symlink_path, LinkNode(relative_target))
       ELSE IF Exists(f, symlink_path) THEN f
       ELSE IF IsDir(f, genre_path) THEN Added(f, symlink_path, LinkNode(relative_target))
       ELSE f

(***************************************************************************)
(* main() of create_genre_symlinks.py and of clear_genre_folders.py, one   *)
(* action per step between two filesystem mutations or API calls.          *)
(***************************************************************************)
GenreCap == 5

NoEntry == [name |-> <<>>, item |-> 0, genres |-> <<>>, k |-> 0]

\* the history of a run that begins on tree f
NewHist(f, prev, prevLinks, start) ==
    [mutations |-> 0,          \* 1 once the run has changed the tree
     made |-> {},              \* the calls of create_symlink that returned True
     skipped |-> {},           \* the paths where create_symlink returned False
     removed |-> {},           \* the paths the clearing unlinked
     why |-> "",               \* the reason of sys.exit(1)
     begin |-> f,              \* the tree when this run began
     atLibs |-> f,             \* the tree when library management began
     prev |-> prev,            \* how the previous run ended
     prevLinks |-> prevLinks,  \* the symlinks the previous run left
     start |-> start]          \* the tree before the first of the interrupted runs

\* mutant: the genre list is taken whole
TopGenresAll(item) == item.Genres

\* genres = jellyfin_item.get('Genres', [])[:5]
TopGenres(item) == SubSeq(item.Genres, 1, IF Len(item.Genres) < GenreCap THEN Len(item.Genres) ELSE GenreCap)

\* sorted(all_genres) of the current catalog
SortedGenres == Sorted(AllGenres(catalog))

Perms(S) == {q \in [1..Cardinality(S) -> S] : \A i, j \in 1..Cardinality(S) : i # j => q[i] # q[j]}

Exit(code, why) ==
    /\ pc' = "exit"
    /\ exitCode' = code
    /\ hist' = [hist EXCEPT !.why = why]

\* required configuration key missing: sys.exit(1)
ConfigMissing ==
    /\ mode = "create" /\ pc = "config"
    /\ Exit(1, "config")
    /\ UNCHANGED <<catalog, matchVars, fs, movies, shows, include_shows, serverLibs, mode,
                   walk, pending, gi, entries, cur, existing, calls, run>>

ConfigOK ==
    /\ mode = "create" /\ pc = "config"
    /\ pc' = "auth"
    /\ UNCHANGED <<catalog, matchVars, fs, movies, shows, include_shows, serverLibs, mode,
                   exitCode, walk, pending, gi, entries, cur, existing, calls, run, hist>>

\* mutant: the failed authentication is noticed only after the clearing
AuthFailLate ==
    /\ pc = "ensure_root"
    /\ Exit(1, "auth")
    /\ UNCHANGED <<catalog, matchVars, fs, movies, shows, include_shows, serverLibs, mode,
                   walk, pending, gi, entries, cur, existing, calls, run>>

\* get_jellyfin_client_and_auth returned no client or no token: sys.exit(1)
AuthFail ==
    /\ pc = "auth"
    /\ Exit(1, "auth")
    /\ UNCHANGED <<catalog, matchVars, fs, movies, shows, include_shows, serverLibs, mode,
                   walk, pending, gi, entries, cur, existing, calls, run>>

AuthOK ==
    /\ pc = "auth"
    /\ pc' = "fetch"
    /\ UNCHANGED <<catalog, matchVars, fs, movies, shows, include_shows, serverLibs, mode,
                   exitCode, walk, pending, gi, entries, cur, existing, calls, run, hist>>

\* get_all_jellyfin_items; an empty list ends the run with sys.exit(1)
Fetch ==
    /\ pc = "fetch"
    /\ IF catalog = <<>> THEN Exit(1, "items") ELSE pc' = "clear" /\ UNCHANGED <<exitCode, hist>>
    /\ UNCHANGED <<catalog, matchVars, fs, movies, shows, include_shows, serverLibs, mode,
                   walk, pending, gi, entries, cur, existing, calls, run>>

\* mutant: the run does not clear before it links
BeginClearSkipped ==
    /\ pc = "clear"
    /\ pc' = "ensure_root"
    /\ UNCHANGED <<catalog, matchVars, fs, movies, shows, include_shows, serverLibs, mode,
                   exitCode, walk, pending, gi, entries, cur, existing, calls, run, hist>>

\* if os.path.exists(genres_dir): clear_symlinks_in_directory(genres_dir)
BeginClear ==
    /\ pc = "clear"
    /\ IF Exists(fs, <<>>)
       THEN pc' = "walk" /\ walk' = << <<>> >>
       ELSE pc' = "ensure_root" /\ UNCHANGED walk
    /\ UNCHANGED <<catalog, matchVars, fs, movies, shows, include_shows, serverLibs, mode,
                   exitCode, pending, gi, entries, cur, existing, calls, run, hist>>

\* mutant: the loop removes only one symlink of each directory
DirLinksOne(f, d) ==
    LET l == {p \in Children(f, d) : IsLink(f, p)}
    IN IF l = {} THEN {} ELSE {CHOOSE p \in l : TRUE}

\* mutant: the loop removes every item of the directory
DirLinksAll(f, d) == Children(f, d)

\* the items of directory d that the loop body of the clearing unlinks
DirLinks(f, d) == {p \in Children(f, d) : IsLink(f, p)}

\* mutant: the walk does not descend
WalkSubdirsNone(f, d) == {}

\* the directories below d that os.walk visits: symlinks are not followed
WalkSubdirs(f, d) == {p \in Children(f, d) : f[p].kind = "dir"}

\* os.walk yields the next directory: its symlinks are the items the loop
\* body removes, its real subdirectories are walked next, in listing order
WalkDir ==
    /\ pc = "walk" /\ pending = {} /\ walk # <<>>
    /\ LET d == Head(walk)
           subdirs == WalkSubdirs(fs, d)
       IN /\ pending' = DirLinks(fs, d)
          /\ \E order \in Perms(subdirs) : walk' = order \o Tail(walk)
    /\ UNCHANGED <<catalog, matchVars, fs, movies, shows, include_shows, serverLibs, mode,
                   pc, exitCode, gi, entries, cur, existing, calls, run, hist>>

\* if os.path.islink(item_path): os.unlink(item_path)
UnlinkItem ==
    /\ pc = "walk" /\ pending # {}
    /\ \E p \in pending :
          /\ fs' = Unlinked(fs, p)
          /\ pending' = pending \ {p}
          /\ hist' = [hist EXCEPT !.mutations = 1, !.removed = @ \cup {p}]
    /\ UNCHANGED <<catalog, matchVars, movies, shows, include_shows, serverLibs, mode,
                   pc, exitCode, walk, gi, entries, cur, existing, calls, run>>

\* the walk is over: clear_symlinks_in_directory returns
WalkEnd ==
    /\ pc = "walk" /\ pending = {} /\ walk = <<>>
    /\ IF mode = "create"
       THEN pc' = "ensure_root" /\ UNCHANGED exitCode
       ELSE pc' = "done" /\ exitCode' = 0
    /\ UNCHANGED <<catalog, matchVars, fs, movies, shows, include_shows, serverLibs, mode,
                   walk, pending, gi, entries, cur, existing, calls, run, hist>>

\* ensure_genre_folders: Path(genres_dir).mkdir(parents=True, exist_ok=True)
EnsureRoot ==
    /\ pc = "ensure_root"
    /\ pc' = "ensure"
    /\ gi' = 1
    /\ IF Exists(fs, <<>>)
       THEN UNCHANGED <<fs, hist>>
       ELSE fs' = Added(fs, <<>>, DirNode) /\ hist' = [hist EXCEPT !.mutations = 1]
    /\ UNCHANGED <<catalog, matchVars, movies, shows, include_shows, serverLibs, mode,
                   exitCode, walk, pending, entries, cur, existing, calls, run>>

\* mutant: the folder is named by the genre as the catalog spells it
EnsuredFSRaw(f, genre) ==
    LET genre_path == Join(<<>>, genre)
    IN IF genre # <<>> /\ ~Exists(f, genre_path) THEN Added(f, genre_path, DirNode) ELSE f

\* the tree after the body of the loop of ensure_genre_folders for one genre
EnsuredFS(f, genre) ==
    LET genre_path == Join(<<>>, Sanitize(genre))
    IN IF genre # <<>> /\ ~Exists(f, genre_path) THEN Added(f, genre_path, DirNode) ELSE f

\* ensure_genre_folders: one iteration of the loop over sorted(all_genres)
EnsureNext ==
    /\ pc = "ensure" /\ gi <= Len(SortedGenres)
    /\ fs' = EnsuredFS(fs, SortedGenres[gi])
    /\ hist' = IF fs' # fs THEN [hist EXCEPT !.mutations = 1] ELSE hist
    /\ gi' = gi + 1
    /\ UNCHANGED <<catalog, matchVars, movies, shows, include_shows, serverLibs, mode,
                   pc, exitCode, walk, pending, entries, cur, existing, calls, run>>

EnsureEnd ==
    /\ pc = "ensure" /\ gi > Len(SortedGenres)
    /\ pc' = "movies"
    /\ entries' = movies
    /\ UNCHANGED <<catalog, matchVars, fs, movies, shows, include_shows, serverLibs, mode,
                   exitCode, walk, pending, gi, cur, existing, calls, run, hist>>

\* what process_media_folder decides for one listing entry: the entry to
\* link, or NoEntry when it is no directory, has no match or has no genres
Matched(e, is_movie) ==
    LET m == FindMatch(e.name, catalog, is_movie)
    IN IF ~e.isdir \/ m = 0 THEN NoEntry
       ELSE IF TopGenres(catalog[m]) = <<>> THEN NoEntry
       ELSE [name |-> e.name, item |-> m, genres |-> TopGenres(catalog[m]), k |-> 1]

\* process_media_folder: the next entry of os.listdir(media_path)
NextEntry ==
    /\ pc \in {"movies", "shows"} /\ cur = NoEntry /\ entries # {}
    /\ \E e \in entries :
          /\ entries' = entries \ {e}
          /\ cur' = Matched(e, pc = "movies")
    /\ UNCHANGED <<catalog, matchVars, fs, movies, shows, include_shows, serverLibs, mode,
                   pc, exitCode, walk, pending, gi, existing, calls, run, hist>>

\* process_media_folder: one iteration of the loop over the genres of the
\* matched item, with its call of create_symlink
LinkStep ==
    /\ pc \in {"movies", "shows"} /\ cur # NoEntry
    /\ LET clean_genre == Sanitize(cur.genres[cur.k])
           genre_folder == Join(<<>>, clean_genre)
           container == IF pc = "movies" THEN movies_dir_container ELSE shows_dir_container
           target == RelativeTarget(container, cur.name, clean_genre)
           symlink_path == Append(genre_folder, cur.name)
       IN IF ~Exists(fs, genre_folder)
          THEN UNCHANGED <<fs, hist>>
          ELSE /\ fs' = SymlinkFS(fs, genre_folder, cur.name, target)
               /\ hist' = IF SymlinkMade(fs, genre_folder, cur.name)
                          THEN [hist EXCEPT !.mutations = 1,
                                            !.made = @ \cup {[path |-> symlink_path,
                                                              pass |-> pc,
                                                              item |-> cur.item,
                                                              genre |-> cur.k]}]
                          ELSE [hist EXCEPT !.skipped = @ \cup {symlink_path}]
    /\ cur' = IF cur.k < Len(cur.genres) THEN [cur EXCEPT !.k = @ + 1] ELSE NoEntry
    /\ UNCHANGED <<catalog, matchVars, movies, shows, include_shows, serverLibs, mode,
                   pc, exitCode, walk, pending, gi, entries, existing, calls, run>>

\* the movies pass is over: the shows pass runs if INCLUDE_SHOWS is set
MoviesEnd ==
    /\ pc = "movies" /\ cur = NoEntry /\ entries = {}
    /\ IF include_shows
       THEN pc' = "shows" /\ entries' = shows
       ELSE pc' = "libs_list" /\ UNCHANGED entries
    /\ UNCHANGED <<catalog, matchVars, fs, movies, shows, include_shows, serverLibs, mode,
                   exitCode, walk, pending, gi, cur, existing, calls, run, hist>>

ShowsEnd ==
    /\ pc = "shows" /\ cur = NoEntry /\ entries = {}
    /\ pc' = "libs_list"
    /\ UNCHANGED <<catalog, matchVars, fs, movies, shows, include_shows, serverLibs, mode,
                   exitCode, walk, pending, gi, entries, cur, existing, calls, run, hist>>

(***************************************************************************)
(* manage_jellyfin_genre_libraries. Each API call may succeed or fail; the *)
(* wrappers catch every failure and return False.                          *)
(***************************************************************************)
Call(op, name, ok) == [op |-> op, name |-> name, ok |-> ok, kind |-> "", paths |-> <<>>]

\* collection_type = "mixed" if include_shows else "movies"
CollectionType == IF include_shows THEN "mixed" ELSE "movies"

\* genre_path_container = f"{genres_dir_container}/{clean_genre}"
GenrePathContainer(clean_genre) == Append(genres_dir_container, clean_genre)

\* existing_libraries = get_jellyfin_libraries(...): [] when the call fails
ListLibs ==
    /\ pc = "libs_list"
    /\ \E ok \in BOOLEAN :
          /\ existing' = IF ok THEN serverLibs ELSE {}
          /\ calls' = Append(calls, Call("list", <<>>, ok))
    /\ gi' = 1
    /\ pc' = "libs"
    /\ hist' = [hist EXCEPT !.atLibs = fs]
    /\ UNCHANGED <<catalog, matchVars, fs, movies, shows, include_shows, serverLibs, mode,
                   exitCode, walk, pending, entries, cur, run>>

\* whether the loop body reaches the update/create branch for this genre
LibWanted(f, genre) == genre # <<>> /\ Exists(f, Join(<<>>, Sanitize(genre)))

\* mutant: the fetched list is not consulted
LibOpCreate(library_name, existing_library_names) == "create"

\* the call the loop body issues for a library name
LibOp(library_name, existing_library_names) ==
    IF library_name \in existing_library_names THEN "update" ELSE "create"

\* the request of the update/create branch: create_jellyfin_library sends the
\* name, the collection type and the paths, update_jellyfin_library_path the
\* name and one path
LibCall(library_name, existing_library_names, ok) ==
    LET op == LibOp(library_name, existing_library_names)
    IN [op |-> op, name |-> library_name, ok |-> ok,
        kind |-> IF op = "create" THEN CollectionType ELSE "",
        paths |-> <<GenrePathContainer(library_name)>>]

\* mutant: a failed call ends the loop
AfterCallAbort(i, ok) == IF ok THEN i + 1 ELSE Len(SortedGenres) + 1

\* the position of the loop after the call for position i returned ok
AfterCall(i, ok) == i + 1

\* one iteration of the loop over sorted(all_genres)
LibNext ==
    /\ pc = "libs" /\ gi <= Len(SortedGenres)
    /\ LET genre == SortedGenres[gi]
           library_name == Sanitize(genre)
       IN IF ~LibWanted(fs, genre)
          THEN gi' = gi + 1 /\ UNCHANGED <<calls, serverLibs>>
          ELSE \E ok \in BOOLEAN :
                  /\ calls' = Append(calls, LibCall(library_name, existing, ok))
                  /\ serverLibs' = IF ok /\ LibOp(library_name, existing) = "create"
                                   THEN serverLibs \cup {library_name} ELSE serverLibs
                  /\ gi' = AfterCall(gi, ok)
    /\ UNCHANGED <<catalog, matchVars, fs, movies, shows, include_shows, mode,
                   pc, exitCode, walk, pending, entries, cur, existing, run, hist>>

\* refresh_jellyfin_libraries, then main() prints its summary and returns
Refresh ==
    /\ pc = "libs" /\ gi > Len(SortedGenres)
    /\ \E ok \in BOOLEAN : calls' = Append(calls, Call("refresh", <<>>, ok))
    /\ pc' = "done"
    /\ exitCode' = 0
    /\ UNCHANGED <<catalog, matchVars, fs, movies, shows, include_shows, serverLibs, mode,
                   walk, pending, gi, entries, cur, existing, run, hist>>

(***************************************************************************)
(* main() of clear_genre_folders.py                                        *)
(***************************************************************************)
\* no genre directory configured: sys.exit(1)
ClearNoConfig ==
    /\ mode = "clear" /\ pc = "config"
    /\ Exit(1, "config")
    /\ UNCHANGED <<catalog, matchVars, fs, movies, shows, include_shows, serverLibs, mode,
                   walk, pending, gi, entries, cur, existing, calls, run>>

ClearConfigOK ==
    /\ mode = "clear" /\ pc = "config"
    /\ pc' = "prompt"
    /\ UNCHANGED <<catalog, matchVars, fs, movies, shows, include_shows, serverLibs, mode,
                   exitCode, walk, pending, gi, entries, cur, existing, calls, run, hist>>

\* the operator does not answer y: sys.exit(0)
PromptNo ==
    /\ pc = "prompt"
    /\ Exit(0, "cancelled")
    /\ UNCHANGED <<catalog, matchVars, fs, movies, shows, include_shows, serverLibs, mode,
                   walk, pending, gi, entries, cur, existing, calls, run>>

\* the operator answers y: clear_symlinks_in_directory(genres_dir)
PromptYes ==
    /\ pc = "prompt"
    /\ IF Exists(fs, <<>>)
       THEN pc' = "walk" /\ walk' = << <<>> >> /\ UNCHANGED exitCode
       ELSE pc' = "done" /\ exitCode' = 0 /\ UNCHANGED walk
    /\ UNCHANGED <<catalog, matchVars, fs, movies, shows, include_shows, serverLibs, mode,
                   pending, gi, entries, cur, existing, calls, run, hist>>

(***************************************************************************)
(* Runs follow one another; a run may be killed between two steps.         *)
(***************************************************************************)
MaxRuns == 2

Ended == pc \in {"done", "exit", "crashed"}

\* how the run that just ended is remembered by the next one
Outcome ==
    IF pc = "crashed" THEN "crashed"
    ELSE IF pc = "done" /\ mode = "create" THEN "complete"
    ELSE "other"

\* the operator starts an entry point again
StartRun ==
    /\ Ended /\ run < MaxRuns
    /\ run' = run + 1
    /\ \E m \in {"create", "clear"} : mode' = m
    /\ pc' = "config"
    /\ exitCode' = -1
    /\ hist' = NewHist(fs, Outcome, Links(fs), IF pc = "crashed" THEN hist.start ELSE fs)
    /\ walk' = <<>> /\ pending' = {} /\ gi' = 1 /\ entries' = {} /\ cur' = NoEntry
    /\ existing' = {} /\ calls' = <<>>
    /\ UNCHANGED <<catalog, matchVars, fs, movies, shows, include_shows, serverLibs>>

\* the create run is killed while it clears, makes folders or links: its
\* local state is lost, the tree stays as it is
Crash ==
    /\ mode = "create"
    /\ pc \in {"clear", "walk", "ensure_root", "ensure", "movies", "shows"}
    /\ pc' = "crashed"
    /\ walk' = <<>> /\ pending' = {} /\ gi' = 1 /\ entries' = {} /\ cur' = NoEntry
    /\ existing' = {} /\ calls' = <<>>
    /\ UNCHANGED <<catalog, matchVars, fs, movies, shows, include_shows, serverLibs, mode,
                   exitCode, run, hist>>

(***************************************************************************)
(* Inputs of the runs: genres, catalog items, media listings and trees.    *)
(***************************************************************************)
gAct == <<"A", "c", "t">>

gDoc == <<"D", "o", "c">>

gAV1 == <<"A", "/", "V">>

gAV2 == <<"A", ":", "V">>

gNone == <<>>

fAV == <<"A", "_", "V">>

fOld == <<"O", "l", "d">>

nInception2010 == sInception \o sSp \o sY2010

nBigRedDog2010 == sBig \o sSp \o sRed \o sSp \o sDog \o sSp \o sY2010

Item(n, t, y, g) == [Name |-> n, Type |-> t, ProductionYear |-> y, Genres |-> g]

iMovie == Item(sInception, "Movie", 2010, <<gAct, gAV1>>)

iSeries == Item(sInception, "Series", 2010, <<gAV2, gNone>>)

iCat == Item(sBig \o sSp \o sRed \o sSp \o sCat, "Movie", 2010, <<gDoc>>)

\* the catalogs get_all_jellyfin_items may return
RunCatalogs ==
    { <<>>,
      <<iMovie>>,
      <<iMovie, iSeries>>,
      <<iCat, iMovie, iSeries>> }

Entry(n, d) == [name |-> n, isdir |-> d]

\* listings of the movies root
MoviesPool ==
    { {Entry(nInception2010, TRUE), Entry(nBigRedDog2010, TRUE)},
      {Entry(nInception2010, FALSE), Entry(nBigRedDog2010, TRUE)} }

\* listings of the shows root
ShowsPool == { {Entry(nInception2010, TRUE)} }

\* the target create_symlink gives a link to a movie below a genre folder
MovieTarget(name) == RelativeTarget(movies_dir_container, name, gAct)

Tree(S) == [p \in {e[1] : e \in S} |-> (CHOOSE e \in S : e[1] = p)[2]]

\* trees genres_dir may hold when a run begins
TreePool ==
    { Tree({}),
      Tree({<< <<>>, DirNode >>}),
      Tree({<< <<>>, DirNode >>, << <<gAct>>, DirNode >>,
            << <<gAct, nInception2010>>, FileNode(7) >>}),
      Tree({<< <<>>, DirNode >>, << <<gAct>>, DirNode >>,
            << <<gAct, nInception2010>>, LinkNode(MovieTarget(nInception2010)) >>,
            << <<fOld>>, DirNode >>,
            << <<fOld, nInception2010>>, LinkNode(MovieTarget(nInception2010)) >>,
            << <<fOld, nBigRedDog2010>>, LinkNode(MovieTarget(nBigRedDog2010)) >>}),
      Tree({<< <<>>, DirNode >>, << <<gAct>>, DirNode >>,
            << <<gAct, nInception2010>>, DirNode >>,
            << <<gAct, sUp>>, FileNode(7) >>,
            << <<gAct, nInception2010, nBigRedDog2010>>, LinkNode(MovieTarget(sUp)) >>}),
      Tree({<< <<>>, DirNode >>, << <<gAct>>, FileNode(7) >>}),
      Tree({<< <<>>, DirNode >>, << <<gAct>>, LinkNode(<<DotDot, fOld>>) >>,
            << <<nInception2010>>, FileNode(7) >>}),
      Tree({<< <<>>, DirNode >>, << <<fAV>>, DirNode >>,
            << <<fAV, nInception2010>>, LinkNode(MovieTarget(sUp)) >>,
            << <<gDoc>>, DirNode >>,
            << <<gDoc, nBigRedDog2010>>, LinkNode(MovieTarget(nBigRedDog2010)) >>}) }

NoMatch == /\ mLocal = <<>> /\ mIsMovie = TRUE /\ mResult = -1

RunInit ==
    /\ catalog \in RunCatalogs
    /\ movies \in MoviesPool
    /\ shows \in ShowsPool
    /\ include_shows \in BOOLEAN
    /\ fs \in TreePool
    /\ serverLibs = {fAV}
    /\ mode \in {"create", "clear"}
    /\ pc = "config"
    /\ exitCode = -1
    /\ walk = <<>> /\ pending = {} /\ gi = 1 /\ entries = {} /\ cur = NoEntry
    /\ existing = {} /\ calls = <<>>
    /\ run = 1
    /\ hist = NewHist(fs, "none", {}, fs)
    /\ NoMatch

CreateStep ==
    \/ ConfigMissing \/ ConfigOK \/ AuthFail \/ AuthOK \/ Fetch
    \/ BeginClear \/ WalkDir \/ UnlinkItem \/ WalkEnd
    \/ EnsureRoot \/ EnsureNext \/ EnsureEnd
    \/ NextEntry \/ LinkStep \/ MoviesEnd \/ ShowsEnd
    \/ ListLibs \/ LibNext \/ Refresh

ClearStep == ClearNoConfig \/ ClearConfigOK \/ PromptNo \/ PromptYes

RunNext == CreateStep \/ ClearStep \/ StartRun

RunSpec == RunInit /\ [][RunNext]_vars

CrashNext == CreateStep \/ ClearStep \/ StartRun \/ Crash

\* the first run is a create run
CrashInit == RunInit /\ mode = "create"

CrashSpec == CrashInit /\ [][CrashNext]_vars

(***************************************************************************)
(* Create runs on catalogs whose items carry more than five genres.        *)
(***************************************************************************)
\* a movie with six genres, listed against the order sorted() gives them
iWide == Item(sInception, "Movie", 2010, <<<<"f">>, <<"e">>, <<"d">>, <<"c">>, <<"b">>, <<"a">>>>)

\* a series with seven genres, two of them with the same folder
iWideSeries == Item(sInception, "Series", 2010,
                    <<gAV1, <<"b">>, gAV2, <<"c">>, <<"d">>, <<"e">>, <<"a">>>>)

WideCatalogs == { <<iWide>>, <<iWideSeries, iWide>> }

WideInit ==
    /\ catalog \in WideCatalogs
    /\ movies \in MoviesPool
    /\ shows \in ShowsPool
    /\ include_shows \in BOOLEAN
    /\ fs \in TreePool
    /\ serverLibs = {fAV}
    /\ mode = "create"
    /\ pc = "config"
    /\ exitCode = -1
    /\ walk = <<>> /\ pending = {} /\ gi = 1 /\ entries = {} /\ cur = NoEntry
    /\ existing = {} /\ calls = <<>>
    /\ run = 1
    /\ hist = NewHist(fs, "none", {}, fs)
    /\ NoMatch

WideSpec == WideInit /\ [][CreateStep]_vars

(***************************************************************************)
(* Library manager harness: manage_jellyfin_genre_libraries called on any  *)
(* tree, catalog and server state, also a tree where a genre folder of the *)
(* catalog is missing.                                                     *)
(***************************************************************************)
\* the virtual libraries the server may hold when the function is called
ServerLibsPool == SUBSET {fAV, gAct}

LibInit ==
    /\ catalog \in RunCatalogs \ {<<>>}
    /\ fs \in TreePool
    /\ serverLibs \in ServerLibsPool
    /\ include_shows \in BOOLEAN
    /\ movies = {} /\ shows = {}
    /\ mode = "create" /\ pc = "libs_list" /\ exitCode = -1
    /\ walk = <<>> /\ pending = {} /\ gi = 1 /\ entries = {} /\ cur = NoEntry
    /\ existing = {} /\ calls = <<>> /\ run = 1
    /\ hist = NewHist(fs, "none", {}, fs)
    /\ NoMatch

LibStep == ListLibs \/ LibNext \/ Refresh

LibSpec == LibInit /\ [][LibStep]_vars

(***************************************************************************)
(* Matcher harness: the inputs are drawn in Init, MatchCall applies the    *)
(* function.                                                               *)
(***************************************************************************)
MatchInit ==
    /\ catalog \in SeqsUpTo(MatchItemPool, MaxCatalog)
    /\ mLocal \in LocalPool
    /\ mIsMovie \in BOOLEAN
    /\ mResult = -1
    /\ fs = Tree({}) /\ movies = {} /\ shows = {} /\ include_shows = FALSE
    /\ serverLibs = {} /\ mode = "create" /\ pc = "match" /\ exitCode = -1
    /\ walk = <<>> /\ pending = {} /\ gi = 1 /\ entries = {} /\ cur = NoEntry
    /\ existing = {} /\ calls = <<>> /\ run = 1
    /\ hist = NewHist(fs, "none", {}, fs)

MatchCall ==
    /\ mResult = -1
    /\ mResult' = FindMatch(mLocal, catalog, mIsMovie)
    /\ UNCHANGED <<catalog, mLocal, mIsMovie, runVars>>

MatchNext == MatchCall

MatchSpec == MatchInit /\ [][MatchNext]_vars

(***************************************************************************)
(* The tree an uninterrupted create run leaves, computed as one function   *)
(* of the tree it starts on (the listing is taken in one fixed order).     *)
(***************************************************************************)
Cleared(f) ==
    IF Exists(f, <<>>) THEN [p \in {q \in DOMAIN f : f[q].kind # "link"} |-> f[p]] ELSE f

RECURSIVE EnsuredFrom(_, _)
EnsuredFrom(f, i) ==
    IF i > Len(SortedGenres) THEN f ELSE EnsuredFrom(EnsuredFS(f, SortedGenres[i]), i + 1)

RECURSIVE LinkedFrom(_, _, _, _)
LinkedFrom(f, c, container, k) ==
    IF k > Len(c.genres) THEN f
    ELSE LET clean_genre == Sanitize(c.genres[k])
             genre_folder == Join(<<>>, clean_genre)
         IN LinkedFrom(IF Exists(f, genre_folder)
                       THEN SymlinkFS(f, genre_folder, c.name,
                                      RelativeTarget(container, c.name, clean_genre))
                       ELSE f,
                       c, container, k + 1)

RECURSIVE LinkedPass(_, _, _)
LinkedPass(f, S, is_movie) ==
    IF S = {} THEN f
    ELSE LET e == CHOOSE x \in S : TRUE
             c == Matched(e, is_movie)
             container == IF is_movie THEN movies_dir_container ELSE shows_dir_container
         IN LinkedPass(IF c = NoEntry THEN f ELSE LinkedFrom(f, c, container, 1),
                       S \ {e}, is_movie)

FullRun(f) ==
    LET a == Cleared(f)
        b == EnsuredFrom(IF Exists(a, <<>>) THEN a ELSE Added(a, <<>>, DirNode), 1)
        c == LinkedPass(b, movies, TRUE)
    IN IF include_shows THEN LinkedPass(c, shows, FALSE) ELSE c

(***************************************************************************)
(* Properties                                                              *)
(***************************************************************************)
CreateDone == pc = "done" /\ mode = "create"

Last(p) == p[Len(p)]

\* C1 - Idempotence: a complete create run that follows a complete create
\* run, catalog and media roots unchanged, ends with exactly the symlinks
\* (path and target) the previous run left.
C1_Idempotent ==
    (CreateDone /\ hist.prev = "complete") => Links(fs) = hist.prevLinks

\* the second of two complete runs removed symlinks and made them again
C1_Witness ==
    /\ CreateDone /\ hist.prev = "complete"
    /\ hist.removed # {} /\ hist.made # {}
    /\ Links(fs) # {}

\* C2 - Clearing is symlink-only: while and after clear_symlinks_in_directory
\* walks the tree, every regular file and directory is as it was before the
\* clearing, and the entries gone are symlinks the walk unlinked.
C2_ClearSymlinkOnly ==
    pc = "walk" =>
        /\ Regular(fs) = Regular(hist.begin)
        /\ \A p \in hist.removed : IsLink(hist.begin, p)
        /\ DOMAIN fs = DOMAIN hist.begin \ hist.removed

\* the walk is over: it removed a symlink below a subdirectory of a genre
\* folder and left a regular file and a regular subdirectory beside it
C2_Witness ==
    /\ pc = "walk" /\ walk = <<>> /\ pending = {}
    /\ \E p \in hist.removed : Len(p) = 3
    /\ \E p, q \in DOMAIN fs :
          /\ Len(p) = 2 /\ fs[p].kind = "file"
          /\ Len(q) = 2 /\ fs[q].kind = "dir"

\* the paths create_symlink is called on in a complete create run
AttemptedPaths ==
    UNION {
      {Append(Join(<<>>, Sanitize(c.genres[k])), c.name) : k \in 1..Len(c.genres)} :
        c \in ({Matched(e, TRUE) : e \in movies}
               \cup (IF include_shows THEN {Matched(e, FALSE) : e \in shows} ELSE {}))
              \ {NoEntry} }

ContainerOf(pass) == IF pass = "movies" THEN movies_dir_container ELSE shows_dir_container

\* the target t of a symlink is the entry name of the media root of pass
TargetsEntry(t, pass, name) ==
    Len(t) >= 2 /\ t[Len(t)] = name /\ t[Len(t) - 1] = Last(ContainerOf(pass))

\* every candidate of the requested type scores at most 40 for the entry
ScoresAtMost40(e, is_movie) ==
    \A i \in 1..Len(catalog) :
        TypeWanted(catalog[i], is_movie) =>
            ~ScoreGT(Score(e.name, catalog[i]), [num |-> 40, den |-> 1])

\* C4 - an entry that scores at most 40 against every candidate of the
\* requested type gets no item from the matcher, the run calls no
\* create_symlink for it, and no symlink to it is left when the run ends.
C4_NoMatchNoLink ==
    mode = "create" =>
        \A pass \in {"movies", "shows"} :
            \A e \in (IF pass = "movies" THEN movies ELSE shows) :
                ScoresAtMost40(e, pass = "movies") =>
                    /\ FindMatch(e.name, catalog, pass = "movies") = 0
                    /\ \A m \in hist.made : ~(m.pass = pass /\ Last(m.path) = e.name)
                    /\ CreateDone =>
                          \A l \in Links(fs) : ~TargetsEntry(l[2], pass, e.name)

\* a run that linked other entries ended, with a movie folder whose best
\* candidate scores exactly 40
C4_Witness ==
    /\ CreateDone /\ hist.made # {}
    /\ \E e \in movies :
          /\ e.isdir /\ ScoresAtMost40(e, TRUE)
          /\ \E i \in 1..Len(catalog) :
                /\ catalog[i].Type = "Movie"
                /\ Score(e.name, catalog[i]).num = 40 * Score(e.name, catalog[i]).den

\* C5 - after a complete create run every symlink below a genre folder was
\* made in this run, for a listed directory that the matcher matched to a
\* catalog item one of whose genres sanitizes to the folder's name.
C5_LinksCurrent ==
    CreateDone =>
        \A l \in Links(fs) :
            Len(l[1]) >= 2 =>
                /\ Len(l[1]) = 2
                /\ \E m \in hist.made : m.path = l[1]
                /\ \E pass \in {"movies"} \cup (IF include_shows THEN {"shows"} ELSE {}) :
                      \E e \in (IF pass = "movies" THEN movies ELSE shows) :
                          /\ e.isdir /\ e.name = Last(l[1])
                          /\ TargetsEntry(l[2], pass, e.name)
                          /\ LET i == FindMatch(e.name, catalog, pass = "movies")
                             IN /\ i # 0
                                /\ \E k \in 1..Len(catalog[i].Genres) :
                                      Sanitize(catalog[i].Genres[k]) = l[1][1]

\* a run that began on a tree with symlinks of an earlier run, below a genre
\* folder that the catalog no longer has, ended with symlinks of its own
C5_Witness ==
    /\ CreateDone
    /\ \E l \in Links(hist.begin) : l[1][1] = fOld
    /\ \E l \in Links(fs) : Len(l[1]) = 2

\* C6 - genre folders are only grown: no run (create or clear) removes a
\* directory, and the directories a run adds are genres_dir itself and the
\* folders named by the sanitized form of a non-empty genre of the catalog.
C6_FoldersOnlyGrown ==
    /\ Dirs(hist.begin) \subseteq Dirs(fs)
    /\ \A p \in Dirs(fs) \ Dirs(hist.begin) :
          \/ p = <<>>
          \/ \E g \in AllGenres(catalog) : g # <<>> /\ p = <<Sanitize(g)>>

\* a run made new folders, among them the one of a genre that needs
\* sanitizing, and kept the folder of a genre the catalog no longer has
C6_Witness ==
    /\ CreateDone
    /\ <<fOld>> \in Dirs(fs)
    /\ <<fAV>> \in Dirs(fs) \ Dirs(hist.begin)
    /\ gNone \in AllGenres(catalog)

\* the candidate has the local normalized name and the local year
ExactWithYear(name, item, is_movie) ==
    /\ TypeWanted(item, is_movie)
    /\ CleanLocalName(name) = CleanItemName(item)
    /\ LocalYear(name) # <<>>
    /\ LocalYear(name) = ItemYear(item)

\* C7 - Exact-name matching: a candidate of the requested type with the
\* local normalized name and the local year scores 120, and the matcher
\* returns the first such candidate of the catalog, hence never a candidate
\* that only contains or is contained in the local name.
C7_ExactNameWins ==
    mResult # -1 =>
        \A i \in 1..Len(catalog) :
            ExactWithYear(mLocal, catalog[i], mIsMovie) =>
                /\ Score(mLocal, catalog[i]) = [num |-> 120, den |-> 1]
                /\ mResult \in 1..i
                /\ ExactWithYear(mLocal, catalog[mResult], mIsMovie)
                /\ \A j \in 1..(mResult - 1) : ~ExactWithYear(mLocal, catalog[j], mIsMovie)

\* "Inception (2010)" against [Inception 2 (2012), Inception (2010)] returns
\* the second item
C7_Witness ==
    /\ mLocal = nInception2010 /\ mIsMovie
    /\ catalog = <<MatchItem(sInception \o sSp \o <<"2">>, "Movie", 2012),
                   MatchItem(sInception, "Movie", 2010)>>
    /\ mResult = 2

\* C8 - Crash-resume convergence: a complete create run that follows
\* interrupted create runs ends with the symlinks and the directories that
\* an uninterrupted run on the tree before the interruptions leaves.
C8_CrashConverges ==
    (CreateDone /\ hist.prev = "crashed") =>
        /\ Links(fs) = Links(FullRun(hist.start))
        /\ Dirs(fs) = Dirs(FullRun(hist.start))

\* the interrupted run had changed the tree, and the next run completed
C8_Witness ==
    /\ CreateDone /\ hist.prev = "crashed"
    /\ Links(hist.begin) # Links(hist.start)
    /\ Links(hist.begin) # {}
    /\ Dirs(hist.begin) # Dirs(hist.start)
    /\ Links(fs) # {}

\* C9 - Fatal errors precede any mutation: when a required key is missing
\* or authentication fails, the create entry point has exit code 1, has not
\* changed the tree and has issued no library call.
C9_FatalBeforeMutation ==
    (mode = "create" /\ hist.why \in {"config", "auth"}) =>
        /\ pc = "exit" /\ exitCode = 1
        /\ hist.mutations = 0
        /\ fs = hist.begin
        /\ calls = <<>>

\* authentication failed in a run that found symlinks of an earlier run
C9_Witness ==
    /\ mode = "create" /\ hist.why = "auth" /\ exitCode = 1
    /\ hist.prev = "complete"
    /\ Links(fs) # {}

\* the iterations of the library loop that reach the update/create branch
WantedPositions == {i \in 1..Len(SortedGenres) : LibWanted(fs, SortedGenres[i])}

\* C10 - Remote failures are not fatal: whatever calls fail, library
\* management leaves the tree as the linking left it, issues its call for
\* every genre whose folder exists, ends with the refresh call, and the run
\* ends with exit code 0.
C10_RemoteNotFatal ==
    /\ pc = "libs" => fs = hist.atLibs
    /\ CreateDone =>
          /\ exitCode = 0
          /\ fs = hist.atLibs
          /\ calls[1].op = "list"
          /\ calls[Len(calls)].op = "refresh"
          /\ Cardinality({j \in 1..Len(calls) : calls[j].op \in {"create", "update"}})
                = Cardinality(WantedPositions)
          /\ \A i \in WantedPositions :
                \E j \in 1..Len(calls) :
                    calls[j].op \in {"create", "update"}
                    /\ calls[j].name = Sanitize(SortedGenres[i])

\* the list call, a create call and the refresh call failed, a later genre
\* still got its call, and the symlinks are in place
C10_Witness ==
    /\ CreateDone
    /\ ~calls[1].ok /\ ~calls[Len(calls)].ok
    /\ \E j, k \in 1..Len(calls) :
          j < k /\ calls[j].op = "create" /\ ~calls[j].ok /\ calls[k].op = "create"
    /\ Links(fs) # {}

\* the normal form of a name when the (YYYY) marker is cut, the case is
\* folded and the punctuation is removed
NormalForm(s) == RemovePunct(Strip(StripYear(Lower(s))))

\* C11 - Normalization on both sides: a candidate whose name has the normal
\* form of the local name (the two differ only by a trailing (YYYY) marker,
\* letter case or punctuation) gets the name score 100.
C11_BothSidesNormalized ==
    mResult # -1 =>
        \A i \in 1..Len(catalog) :
            NormalForm(catalog[i].Name) = NormalForm(mLocal) =>
                NameScore(mLocal, catalog[i]) = [num |-> 100, den |-> 1]

\* positions of the catalog items of the requested type
Candidates == {i \in 1..Len(catalog) : TypeWanted(catalog[i], mIsMovie)}

\* the score of the catalog item at position i against the local name
ScoreAt(i) == Score(mLocal, catalog[i])

\* C12 - Matcher selection: when some item of the requested type scores
\* above 40, the matcher returns an item of the requested type that no such
\* item outscores and that outscores every such item before it in the
\* catalog; when none does, it returns none.
C12_Selection ==
    mResult # -1 =>
        IF \E i \in Candidates : ScoreGT(ScoreAt(i), [num |-> MinScore, den |-> 1])
        THEN /\ mResult \in Candidates
             /\ \A j \in Candidates : ~ScoreGT(ScoreAt(j), ScoreAt(mResult))
             /\ \A j \in Candidates : j < mResult => ScoreGT(ScoreAt(mResult), ScoreAt(j))
        ELSE mResult = 0

\* two different candidates share the highest score and the first is returned
C12_Witness ==
    /\ mResult = 1
    /\ CleanLocalName(mLocal) # <<>>
    /\ Candidates = {1, 2}
    /\ catalog[1] # catalog[2]
    /\ ScoreAt(1) = ScoreAt(2)

\* the genre is a non-empty string and its folder exists in the genre root
FolderExists(genre) == genre # <<>> /\ <<Sanitize(genre)>> \in DOMAIN fs

\* the positions of sorted(all_genres) the library loop has gone through
Processed == 1..(gi - 1)

\* the positions of calls that hold a create or an update call
LibCalls == {j \in 1..Len(calls) : calls[j].op \in {"create", "update"}}

\* C13 - Create-or-update decision: the library loop issues one call for
\* each genre it has gone through whose folder exists: an update call with
\* the container path of the folder when the sanitized name is in the
\* fetched list, else a create call with the configured collection kind and
\* that single path; no call names a genre whose folder is missing.
C13_CreateOrUpdate ==
    pc \in {"libs", "done"} =>
        /\ Cardinality(LibCalls) = Cardinality({i \in Processed : FolderExists(SortedGenres[i])})
        /\ \A i \in Processed :
              LET name == Sanitize(SortedGenres[i])
              IN IF FolderExists(SortedGenres[i])
                 THEN \E j \in LibCalls : calls[j].name = name
                 ELSE SortedGenres[i] # <<>> => \A j \in LibCalls : calls[j].name # name
        /\ \A j \in LibCalls :
              /\ \E i \in Processed : FolderExists(SortedGenres[i])
                                      /\ calls[j].name = Sanitize(SortedGenres[i])
              /\ calls[j].paths = <<Append(genres_dir_container, calls[j].name)>>
              /\ IF calls[j].name \in existing
                 THEN calls[j].op = "update"
                 ELSE /\ calls[j].op = "create"
                      /\ calls[j].kind = (IF include_shows THEN "mixed" ELSE "movies")

\* one run of the library manager has issued a create call and an update
\* call and has passed over a genre whose folder is missing
C13_Witness ==
    /\ pc = "done"
    /\ \E j, k \in LibCalls : calls[j].op = "create" /\ calls[k].op = "update"
    /\ \E i \in Processed : SortedGenres[i] # <<>> /\ ~FolderExists(SortedGenres[i])

\* the calls of create_symlink that returned True for one entry in one pass
MadeFor(pass, name) == {m \in hist.made : m.pass = pass /\ Last(m.path) = name}

\* the folders of the first five genres of an item, by the order of its list
CapFolders(item) ==
    {<<Sanitize(item.Genres[k])>> : k \in {k \in 1..Len(item.Genres) : k <= GenreCap}}

\* C14 - Genre cap: every symlink a pass makes for an entry lies in the
\* folder of one of the first five genres of the matched item, by catalog
\* order, and an entry gets at most five symlinks per pass; when the run is
\* over, the folder of a later genre that is none of the first five holds no
\* symlink of that entry.
C14_GenreCap ==
    /\ \A m \in hist.made :
          /\ m.genre <= GenreCap
          /\ Parent(m.path) \in CapFolders(catalog[m.item])
          /\ Cardinality(MadeFor(m.pass, Last(m.path))) <= GenreCap
    /\ CreateDone =>
          \A p \in {q \in DOMAIN fs : IsLink(fs, q)} :
              \E m \in hist.made : m.path = p /\ Parent(p) \in CapFolders(catalog[m.item])

\* the movie with six genres got its five symlinks, and the folder of the
\* sixth genre exists without one
C14_Witness ==
    /\ CreateDone
    /\ Cardinality(MadeFor("movies", nInception2010)) = GenreCap
    /\ <<<<"a">>>> \in Dirs(fs)
    /\ <<<<"a">>, nInception2010>> \notin DOMAIN fs
    /\ IsLink(fs, <<<<"b">>, nInception2010>>)

\* the positions of calls that hold a create call
CreateCalls == {j \in 1..Len(calls) : calls[j].op = "create"}

\* C15 - No duplicate create: one run of the library manager issues at most
\* one create call per library name.
C15_CreateOnce ==
    \A j, k \in CreateCalls : calls[j].name = calls[k].name => j = k

\* the local name or the name of the item is empty once normalized
EmptyName(name, item) == CleanLocalName(name) = <<>> \/ CleanItemName(item) = <<>>

\* C16 - No match on an empty name: a candidate paired with the local name
\* so that one of the two normalized names is empty scores at most 40, and
\* the matcher does not return it.
C16_NoEmptyNameMatch ==
    mResult # -1 =>
        /\ \A i \in Candidates :
              EmptyName(mLocal, catalog[i]) =>
                  ~ScoreGT(ScoreAt(i), [num |-> MinScore, den |-> 1])
        /\ mResult # 0 => ~EmptyName(mLocal, catalog[mResult])

\* the candidate's normalized name neither equals the local normalized name
\* nor contains it nor is contained in it
OverlapOnly(name, item) ==
    LET l == CleanLocalName(name)
        c == CleanItemName(item)
    IN l # c /\ ~IsSubstring(l, c) /\ ~IsSubstring(c, l)

\* both years are present and equal
YearsAgree(name, item) ==
    LocalYear(name) # <<>> /\ ItemYear(item) # <<>> /\ LocalYear(name) = ItemYear(item)

\* the shared words are more than two thirds of the larger word set
TwoThirdsShared(name, item) ==
    LET A == WordSet(CleanLocalName(name))
        B == WordSet(CleanItemName(item))
    IN 3 * Cardinality(A \cap B) > 2 * MaxOf2(Cardinality(A), Cardinality(B))

\* C17 - Word overlap needs a year: a returned candidate matched by word
\* overlap alone has the year of the local name and shares with it more than
\* two thirds of the larger word set.
C17_OverlapNeedsYear ==
    (mResult # -1 /\ mResult # 0 /\ OverlapOnly(mLocal, catalog[mResult])) =>
        /\ YearsAgree(mLocal, catalog[mResult])
        /\ TwoThirdsShared(mLocal, catalog[mResult])

\* "Red Dog (2010)" returns the item "Dog Red" of 2010
C17_Witness ==
    /\ mResult # -1 /\ mResult # 0
    /\ OverlapOnly(mLocal, catalog[mResult])
    /\ mLocal = sRed \o sSp \o sDog \o sSp \o sY2010
    /\ catalog[mResult].Name = sDog \o sSp \o sRed

====
